---------------------------- MODULE Spec2Model ----------------------------
(***************************************************************************)
(* Model of src/main.py: the scene navigation of Game and the timed quiz   *)
(* state machine of QuizScene, driven by the frame loop of Game.run.       *)
(*                                                                         *)
(* Python values are kept as they are, with two encodings:                 *)
(*   - an optional value is a sequence: None is << >>, a value x is <<x>>; *)
(*   - a list is a sequence, so Python index i is TLA+ index i + 1.        *)
(* pygame.time.get_ticks() is the variable now, counted in steps of        *)
(* TimeUnit milliseconds; every comparison of the code is made on          *)
(* milliseconds (Ms).  The clock advances in Game.run's clock.tick, so     *)
(* all get_ticks() calls of one frame read the same value.                 *)
(*                                                                         *)
(* Game.scenes caches the Splash and Menu instances (variables splash and  *)
(* menu).  An instance of any other scene is overwritten by change_scene   *)
(* before it is made active again and is never read after another scene    *)
(* became active, so the model keeps only the active one (quiz, input)     *)
(* and sets it to None when the scene is left.                             *)
(*                                                                         *)
(* The audio mixer (music track, volume, click sound) takes no part in     *)
(* any transition and is not modelled, except for the final score sound,   *)
(* whose play() calls are counted per quiz session in quiz.score_plays.    *)
(***************************************************************************)
EXTENDS Integers, Sequences, FiniteSets, TLC

\* ------------------------------------------------------------ bounds
\* Milliseconds per clock step.
TimeUnit == 1000
\* The clock stops advancing at MaxNow steps.
MaxNow == 12
\* clock.tick advances the clock by 0..MaxStep steps per frame.
MaxStep == 1
\* Number of Medium records in the biology question bank.
BankMedium == 11
\* random.shuffle: lists up to MaxPerm elements take every permutation,
\* longer lists the rotations by 0..MaxPerm.
MaxPerm == 1
\* Longest text typed in the Input scene.
MaxText == 1

\* ------------------------------------------------------------ program constants
SplashDelayMs == 3000
FeedbackDelayMs == 1500
MaxQuestions == 10

None == << >>
Some(x) == << x >>
IsNone(o) == o = << >>
Val(o) == o[1]

Ms(steps) == steps * TimeUnit

SCENE_SPLASH == "splash"
SCENE_MENU == "menu"
SCENE_CATEGORY == "category"
SCENE_INPUT == "input"
SCENE_QUIZ == "quiz"
SCENE_CREDITS == "credits"
SCENE_SETTINGS == "settings"

BOTTOM_BUTTONS == << "Cancel", "General Knowledge", "Credits", "Settings" >>

Difficulties == << "Easy", "Medium", "Hard" >>

TIME_LIMITS(d) ==
    CASE d = Some("Easy") -> 20
      [] d = Some("Medium") -> 15
      [] d = Some("Hard") -> 10
      [] OTHER -> 10

\* ------------------------------------------------------------ the asset directory
\* The .png files of assets/icons, in sorted order, without extension.
IconKeys == << "biology", "cancel", "physics" >>

\* label = key.replace('_', ' ').title()
Title(key) ==
    CASE key = "biology" -> "Biology"
      [] key = "cancel" -> "Cancel"
      [] key = "physics" -> "Physics"
      [] OTHER -> key

ScoreWav == "audio/score.wav"
DataFile(key) == "data/" \o key \o "_question.json"

SplashPng == "images/splash.png"
IconsDir == "icons"

AllFiles == { SplashPng, IconsDir, ScoreWav, DataFile("biology") }

\* The sets of files the run may find on disk.
AssetConfigs ==
    { AllFiles,
      AllFiles \ { ScoreWav },
      AllFiles \ { SplashPng },
      AllFiles \ { IconsDir } }

\* SplashScene.__init__ loads splash.png and MenuScene.__init__ lists the
\* icon directory without testing that they exist.
ConstructionRaises(f) == SplashPng \notin f \/ IconsDir \notin f

Options(id, n) == [ i \in 1..n |-> << id, i >> ]

Question(id, d, n, a) ==
    [ id |-> id, difficulty |-> d, options |-> Options(id, n), answerIndex |-> a ]

\* The records of assets/data/biology_question.json: BankMedium Medium
\* records, two Hard records with different numbers of options, no Easy
\* record.  Every record has the shape of a Question: at least two options
\* and an answerIndex that is the index of one of them.  There is no
\* physics_question.json.
BiologyBank ==
    [ i \in 1..BankMedium |-> Question(i, "Medium", 2, i % 2) ]
    \o << Question(BankMedium + 1, "Hard", 3, 2),
          Question(BankMedium + 2, "Hard", 2, 0) >>

\* json.load of the data file of a category.
JsonLoad(path) == IF path = DataFile("biology") THEN BiologyBank ELSE << >>

\* ------------------------------------------------------------ list helpers
RECURSIVE Filter(_, _)
Filter(s, d) ==
    IF s = << >> THEN << >>
    ELSE IF Some(Head(s).difficulty) = d
         THEN << Head(s) >> \o Filter(Tail(s), d)
         ELSE Filter(Tail(s), d)

Rotate(s, k) ==
    [ i \in 1..Len(s) |-> s[((i - 1 + k) % Len(s)) + 1] ]

Perms(s) ==
    { [ i \in 1..Len(s) |-> s[p[i]] ] :
        p \in { f \in [1..Len(s) -> 1..Len(s)] :
                  \A i, j \in 1..Len(s) : f[i] = f[j] => i = j } }

\* The outcomes of random.shuffle(s).
Shuffles(s) ==
    IF Len(s) <= MaxPerm THEN Perms(s)
    ELSE { Rotate(s, k) : k \in 0..MaxPerm }

\* s[:n]
Take(s, n) == SubSeq(s, 1, IF Len(s) < n THEN Len(s) ELSE n)

\* ------------------------------------------------------------ QuizScene
KeyStr(k) == IF IsNone(k) THEN "None" ELSE Val(k)

\* Slip: the records are not filtered by difficulty.
LoadQuestionsOfAnyDifficulty(key, diff, files) ==
    LET file_path == DataFile(KeyStr(key))
    IN  IF file_path \in files THEN JsonLoad(file_path) ELSE << >>

\* self.qs = [q for q in data if q.get('difficulty') == game.selected_difficulty]
LoadQuestions(key, diff, files) ==
    LET file_path == DataFile(KeyStr(key))
        data == IF file_path \in files THEN JsonLoad(file_path) ELSE << >>
    IN  Filter(data, diff)

\* Slip: one question too many is kept.
TruncateOneMore(s) == Take(s, MaxQuestions + 1)

\* self.qs = self.qs[:10]
Truncate(s) == Take(s, MaxQuestions)

\* One Button per option of the first question, with callback select(i).
MakeOpts(qs) ==
    IF qs = << >> THEN << >>
    ELSE [ i \in 1..Len(qs[1].options) |->
             [ text |-> qs[1].options[i], idx |-> i - 1 ] ]

\* QuizScene.__init__ at clock value t, for one outcome of the shuffle.
NewQuiz(shuffled, diff, files, t) ==
    LET qs == Truncate(shuffled)
    IN  [ qs |-> qs,
          idx |-> 0,
          score |-> 0,
          limit |-> TIME_LIMITS(diff),
          start |-> t,
          feedback |-> FALSE,
          sel |-> None,
          finished |-> FALSE,
          feed_time |-> None,
          opts |-> MakeOpts(qs),
          score_sfx |-> ScoreWav \in files,
          score_plays |-> 0 ]

QuizInits(key, diff, files, t) ==
    { NewQuiz(sh, diff, files, t) : sh \in Shuffles(LoadQuestions(key, diff, files)) }

\* Slip: selections are refused only once the session is finished.
SelectIgnoredWhenFinished(q) == q.finished

\* if self.feedback or self.finished: return
SelectIgnored(q) == q.feedback \/ q.finished

\* self.qs[self.idx] raises IndexError
SelectRaises(q) == ~SelectIgnored(q) /\ q.idx >= Len(q.qs)

\* Slip: every submission scores.
ScoreAfterAnySubmission(q, idx) == q.score + 1

\* if idx == correct: self.score += 1
ScoreAfter(q, idx) ==
    IF idx = q.qs[q.idx + 1].answerIndex THEN q.score + 1 ELSE q.score

\* QuizScene.select(idx) at clock value t, when it does not raise.
select(q, idx, t) ==
    IF SelectIgnored(q) THEN q
    ELSE [ q EXCEPT !.feedback = TRUE,
                    !.sel = Some(idx),
                    !.score = ScoreAfter(q, idx),
                    !.feed_time = Some(t) ]

\* Slip: the limit must be exceeded, not reached.
TimedOutStrictly(q, t) == Ms(t - q.start) > q.limit * 1000

\* elapsed >= self.limit, with elapsed = (now - self.start) / 1000
TimedOut(q, t) == Ms(t - q.start) >= q.limit * 1000

\* Slip: the timeout submits the first option.
TimeoutSelFirstOption == 1 - 1

\* The index update() submits when the time limit expires.
TimeoutSel == -1

\* The first if of update(): the time limit of the current question.
UpdateTimeoutDue(q, t) == ~q.feedback /\ ~q.finished /\ TimedOut(q, t)

UpdateRaises(q, t) == UpdateTimeoutDue(q, t) /\ SelectRaises(q)

\* Slip: the timeout restarts the clock of the question instead of
\* submitting.
AfterTimeoutRestarts(q, t) ==
    IF UpdateTimeoutDue(q, t) THEN [ q EXCEPT !.start = t ] ELSE q

AfterTimeout(q, t) ==
    IF UpdateTimeoutDue(q, t) THEN select(q, TimeoutSel, t) ELSE q

\* Slip: the feedback window is measured from the start of the question.
FeedbackOverSinceStart(q, t) == Ms(t - q.start) > FeedbackDelayMs

\* now - self.feed_time > 1500
FeedbackOver(q, t) == Ms(t - Val(q.feed_time)) > FeedbackDelayMs

\* for btn, opt in zip(self.opts, self.qs[self.idx]['options']): btn.text = opt
Retext(opts, options) ==
    [ i \in 1..Len(opts) |->
        IF i <= Len(options) THEN [ opts[i] EXCEPT !.text = options[i] ]
        ELSE opts[i] ]

\* if self.score_sfx: self.score_sfx.play()
PlaysAfterFinish(q) == IF q.score_sfx THEN q.score_plays + 1 ELSE q.score_plays

\* Slip: the session ends one question early.
PastLastButOne(q, i) == i >= Len(q.qs) - 1

\* if self.idx >= len(self.qs)
PastLast(q, i) == i >= Len(q.qs)

\* The second if of update(): the end of the feedback window.
Advance(q, t) ==
    LET i == q.idx + 1
    IN  IF PastLast(q, i)
        THEN [ q EXCEPT !.idx = i,
                        !.finished = TRUE,
                        !.score_plays = PlaysAfterFinish(q) ]
        ELSE [ q EXCEPT !.idx = i,
                        !.start = t,
                        !.feedback = FALSE,
                        !.sel = None,
                        !.opts = Retext(q.opts, q.qs[i + 1].options) ]

\* Slip: the end of the feedback window is not guarded by self.finished.
updateAfterFinished(q, t) ==
    LET q1 == AfterTimeout(q, t)
    IN  IF q1.feedback /\ FeedbackOver(q1, t)
        THEN Advance(q1, t)
        ELSE q1

\* QuizScene.update() at clock value t, when it does not raise.
update(q, t) ==
    LET q1 == AfterTimeout(q, t)
    IN  IF q1.feedback /\ ~q1.finished /\ FeedbackOver(q1, t)
        THEN Advance(q1, t)
        ELSE q1

\* ------------------------------------------------------------ events
\* pygame events.  A pointer position is the region it falls in: the n-th
\* button of the bottom bar, the n-th control of the scene's body (menu
\* icon, difficulty button, option button) or no control at all.  The
\* regions are disjoint for the assets above (an option button reaches the
\* bottom bar only from the seventh option on).
Event(type, zone, n, key) == [ type |-> type, zone |-> zone, n |-> n, key |-> key ]

MaxBody == 3

MouseDown(zone, n) == Event("MOUSEBUTTONDOWN", zone, n, "-")
KeyDown(key) == Event("KEYDOWN", "-", 0, key)

Keys == { "K_RETURN", "K_BACKSPACE", "K_LEFT", "K_RIGHT", "K_a" }

\* evt.unicode
Unicode(key) == IF key = "K_a" THEN << "a" >> ELSE << >>

MouseEvents ==
    { MouseDown("bottom", n) : n \in 0..(Len(BOTTOM_BUTTONS) - 1) }
    \cup { MouseDown("body", n) : n \in 0..(MaxBody - 1) }
    \cup { MouseDown("blank", 0) }

SceneEvents ==
    MouseEvents \cup { KeyDown(k) : k \in Keys } \cup { Event("KEYUP", "-", 0, "-") }

IsMouseDown(e) == e.type = "MOUSEBUTTONDOWN"

\* The index of the body control under the pointer, among n controls.
BodyHit(e, n) == IsMouseDown(e) /\ e.zone = "body" /\ e.n < n

\* SceneBase.handle_event and Game.on_bottom: the scene the bottom bar
\* asks for, if any.
\* Slip: General Knowledge starts a quiz.
on_bottomGeneralKnowledgeQuiz(label) ==
    CASE label = "Cancel" -> Some(SCENE_MENU)
      [] label = "Credits" -> Some(SCENE_CREDITS)
      [] label = "Settings" -> Some(SCENE_SETTINGS)
      [] label = "General Knowledge" -> Some(SCENE_QUIZ)
      [] OTHER -> None

on_bottom(label) ==
    CASE label = "Cancel" -> Some(SCENE_MENU)
      [] label = "Credits" -> Some(SCENE_CREDITS)
      [] label = "Settings" -> Some(SCENE_SETTINGS)
      [] OTHER -> None

BottomTarget(e) ==
    IF IsMouseDown(e) /\ e.zone = "bottom"
    THEN on_bottom(BOTTOM_BUTTONS[e.n + 1])
    ELSE None

\* ------------------------------------------------------------ state
VARIABLES
    files,               \* the asset files on disk
    now,                 \* pygame.time.get_ticks(), in clock steps
    pc,                  \* position in Game.run: "events", "draw", "done", "crashed"
    running,             \* Game.running
    error,               \* the exception that ended the run, or "none"
    scene,               \* the name of Game.scene
    selected_school,     \* Game.selected_school
    selected_key,        \* Game.selected_key
    selected_difficulty, \* Game.selected_difficulty
    player_name,         \* Game.player_name
    splash,              \* the SplashScene instance
    menu,                \* the MenuScene instance
    input,               \* the active InputScene instance
    quiz                 \* the active QuizScene instance

ctx == << selected_school, selected_key, selected_difficulty, player_name >>

vars == << files, now, pc, running, error, scene, selected_school, selected_key,
           selected_difficulty, player_name, splash, menu, input, quiz >>

NoQuiz == NewQuiz(<< >>, None, {}, 0)
NoInput == [ diff |-> None, text |-> << >> ]

\* The (rect, label, key) list MenuScene.draw computes.
IconRects == [ i \in 1..Len(IconKeys) |-> [ label |-> Title(IconKeys[i]), key |-> IconKeys[i] ] ]

\* Game.__init__
Init ==
    /\ files \in AssetConfigs
    /\ now = 0
    /\ pc = IF ConstructionRaises(files) THEN "crashed" ELSE "events"
    /\ running = TRUE
    /\ error = IF ConstructionRaises(files) THEN "FileNotFoundError" ELSE "none"
    /\ scene = IF ConstructionRaises(files) THEN "none" ELSE SCENE_SPLASH
    /\ selected_school = None
    /\ selected_key = None
    /\ selected_difficulty = None
    /\ player_name = None
    /\ splash = [ start |-> 0 ]
    /\ menu = [ icon_rects |-> None ]
    /\ input = NoInput
    /\ quiz = NoQuiz

\* Slip: the Quiz scene is cached like Menu (constructed only when the
\* registry holds no session yet, and kept when it is left).
change_sceneCached(name) ==
    /\ scene' = name
    /\ quiz' \in IF name = SCENE_QUIZ /\ quiz = NoQuiz
                 THEN QuizInits(selected_key', selected_difficulty', files, now)
                 ELSE { quiz }
    /\ input' = IF name = SCENE_INPUT
                THEN [ diff |-> selected_difficulty', text |-> << >> ]
                ELSE NoInput

\* Game.change_scene(name), evaluated after the session context is set.
change_scene(name) ==
    /\ scene' = name
    /\ quiz' \in IF name = SCENE_QUIZ
                 THEN QuizInits(selected_key', selected_difficulty', files, now)
                 ELSE { NoQuiz }
    /\ input' = IF name = SCENE_INPUT
                THEN [ diff |-> selected_difficulty', text |-> << >> ]
                ELSE NoInput

\* The bottom bar of the active scene handles the event.
BottomBar(e) ==
    IF IsNone(BottomTarget(e))
    THEN UNCHANGED << scene, quiz, input >>
    ELSE change_scene(Val(BottomTarget(e)))

Raise(name) ==
    /\ error' = name
    /\ pc' = "crashed"

Dispatching == pc = "events"

\* SceneBase.handle_event, for the scenes that do not override it or add
\* nothing to the state (Splash, Credits, Settings).
BaseEvent(e) ==
    /\ Dispatching
    /\ scene \in { SCENE_SPLASH, SCENE_CREDITS, SCENE_SETTINGS }
    /\ UNCHANGED ctx
    /\ BottomBar(e)
    /\ UNCHANGED << files, now, pc, running, error, splash, menu >>

\* MenuScene.handle_event
MenuEvent(e) ==
    /\ Dispatching
    /\ scene = SCENE_MENU
    /\ IF IsMouseDown(e) /\ IsNone(menu.icon_rects)
       THEN /\ Raise("AttributeError")
            /\ UNCHANGED << ctx, scene, quiz, input >>
       ELSE /\ IF BodyHit(e, Len(IconKeys))
               THEN LET icon == Val(menu.icon_rects)[e.n + 1]
                    IN  IF icon.label = "Cancel"
                        THEN /\ UNCHANGED ctx
                             /\ change_scene(SCENE_MENU)
                        ELSE /\ selected_school' = Some(icon.label)
                             /\ selected_key' = Some(icon.key)
                             /\ UNCHANGED << selected_difficulty, player_name >>
                             /\ change_scene(SCENE_CATEGORY)
               ELSE /\ UNCHANGED ctx
                    /\ BottomBar(e)
            /\ UNCHANGED << pc, error >>
    /\ UNCHANGED << files, now, running, splash, menu >>

\* CategoryScene.handle_event and Game.start_quiz
CategoryEvent(e) ==
    /\ Dispatching
    /\ scene = SCENE_CATEGORY
    /\ IF BodyHit(e, Len(Difficulties))
       THEN /\ selected_difficulty' = Some(Difficulties[e.n + 1])
            /\ UNCHANGED << selected_school, selected_key, player_name >>
            /\ change_scene(SCENE_INPUT)
       ELSE /\ UNCHANGED ctx
            /\ BottomBar(e)
    /\ UNCHANGED << files, now, pc, running, error, splash, menu >>

\* InputScene.handle_event
InputEvent(e) ==
    /\ Dispatching
    /\ scene = SCENE_INPUT
    /\ e.type = "KEYDOWN" /\ e.key \notin { "K_RETURN", "K_BACKSPACE" }
           => Len(input.text) + Len(Unicode(e.key)) <= MaxText
    /\ IF e.type = "KEYDOWN"
       THEN IF e.key = "K_RETURN"
            THEN /\ player_name' = Some(input.text)
                 /\ UNCHANGED << selected_school, selected_key, selected_difficulty >>
                 /\ change_scene(SCENE_QUIZ)
            ELSE /\ input' = IF e.key = "K_BACKSPACE"
                             THEN [ input EXCEPT !.text = SubSeq(@, 1, Len(@) - 1) ]
                             ELSE [ input EXCEPT !.text = @ \o Unicode(e.key) ]
                 /\ UNCHANGED << ctx, scene, quiz >>
       ELSE /\ UNCHANGED ctx
            /\ BottomBar(e)
    /\ UNCHANGED << files, now, pc, running, error, splash, menu >>

\* The option buttons of QuizScene.handle_event: the button under the
\* pointer calls select with its index.
QuizButtons(q, e, t) ==
    IF BodyHit(e, Len(q.opts)) THEN select(q, q.opts[e.n + 1].idx, t) ELSE q

\* Slip: the bottom bar is served before the click that ends the session.
ReturnsToMenuOffBar(q, e) == q.finished /\ IsMouseDown(e) /\ e.zone # "bottom"

\* if self.finished and evt.type == pygame.MOUSEBUTTONDOWN
ReturnsToMenu(q, e) == q.finished /\ IsMouseDown(e)

\* QuizScene.handle_event
QuizEvent(e) ==
    /\ Dispatching
    /\ scene = SCENE_QUIZ
    /\ UNCHANGED ctx
    /\ IF ReturnsToMenu(quiz, e)
       THEN change_scene(SCENE_MENU)
       ELSE IF IsNone(BottomTarget(e))
            THEN /\ quiz' = QuizButtons(quiz, e, now)
                 /\ UNCHANGED << scene, input >>
            ELSE change_scene(Val(BottomTarget(e)))
    /\ UNCHANGED << files, now, pc, running, error, splash, menu >>

\* if evt.type == pygame.QUIT: self.running = False
Quit ==
    /\ Dispatching
    /\ running
    /\ running' = FALSE
    /\ UNCHANGED << files, now, pc, error, scene, ctx, splash, menu, input, quiz >>

\* now - self.start > 3000
\* Slip: the splash also ends at exactly the delay.
SplashOverAtDelay(t) == Ms(t - splash.start) >= SplashDelayMs

SplashOver(t) == Ms(t - splash.start) > SplashDelayMs

\* SplashScene.update
SplashUpdate ==
    /\ Dispatching
    /\ scene = SCENE_SPLASH
    /\ IF SplashOver(now)
       THEN /\ UNCHANGED ctx
            /\ change_scene(SCENE_MENU)
       ELSE UNCHANGED << ctx, scene, quiz, input >>
    /\ pc' = "draw"
    /\ UNCHANGED << files, now, running, error, splash, menu >>

\* QuizScene.update
QuizUpdate ==
    /\ Dispatching
    /\ scene = SCENE_QUIZ
    /\ IF UpdateRaises(quiz, now)
       THEN /\ Raise("IndexError")
            /\ UNCHANGED quiz
       ELSE /\ quiz' = update(quiz, now)
            /\ pc' = "draw"
            /\ UNCHANGED error
    /\ UNCHANGED << files, now, running, scene, ctx, splash, menu, input >>

\* if hasattr(self.scene, 'update'): the other scenes have none
NoUpdate ==
    /\ Dispatching
    /\ scene \notin { SCENE_SPLASH, SCENE_QUIZ }
    /\ pc' = "draw"
    /\ UNCHANGED << files, now, running, error, scene, ctx, splash, menu, input, quiz >>

\* self.scene.draw, display.flip, clock.tick and the loop test of Game.run.
\* MenuScene.draw computes icon_rects; no other draw changes the state.
Draw ==
    /\ pc = "draw"
    /\ menu' = IF scene = SCENE_MENU THEN [ menu EXCEPT !.icon_rects = Some(IconRects) ] ELSE menu
    /\ \E d \in 0..MaxStep :
          /\ now + d <= MaxNow
          /\ now' = now + d
    /\ pc' = IF running THEN "events" ELSE "done"
    /\ UNCHANGED << files, running, error, scene, ctx, splash, input, quiz >>

Next ==
    \/ \E e \in SceneEvents : BaseEvent(e)
    \/ \E e \in SceneEvents : MenuEvent(e)
    \/ \E e \in SceneEvents : CategoryEvent(e)
    \/ \E e \in SceneEvents : InputEvent(e)
    \/ \E e \in SceneEvents : QuizEvent(e)
    \/ Quit
    \/ SplashUpdate
    \/ QuizUpdate
    \/ NoUpdate
    \/ Draw

Spec == Init /\ [][Next]_vars

\* ------------------------------------------------------------ the run with time going on
\* The scenes read the clock only to compare now - t with a delay, for a
\* stored tick value t.  Counting now from a moving origin therefore
\* changes nothing: instead of raising now by d, the end of a frame lowers
\* every stored tick value by d, and a tick value further back than the
\* longest delay it is compared with stays where it is.

\* The clock steps after which a delay of ms milliseconds is over.
StepsOver(ms) == (ms \div TimeUnit) + 1

\* The longest time limit of TIME_LIMITS, in ms.
LongestLimitMs ==
    1000 * TIME_LIMITS(Some(CHOOSE d \in { Difficulties[i] : i \in DOMAIN Difficulties } :
                \A i \in DOMAIN Difficulties :
                    TIME_LIMITS(Some(Difficulties[i])) <= TIME_LIMITS(Some(d))))

\* Tick value t seen d clock steps later, for comparisons with delays
\* of at most ms milliseconds.
Earlier(t, d, ms) ==
    IF t - d < now - StepsOver(ms) THEN now - StepsOver(ms) ELSE t - d

\* The end of a frame (as Draw) in which the clock goes on by d steps.
Tick(d) ==
    /\ pc = "draw"
    /\ menu' = IF scene = SCENE_MENU THEN [ menu EXCEPT !.icon_rects = Some(IconRects) ] ELSE menu
    /\ splash' = [ splash EXCEPT !.start = Earlier(@, d, SplashDelayMs) ]
    /\ quiz' = IF scene = SCENE_QUIZ
               THEN [ quiz EXCEPT
                        !.start = Earlier(@, d, LongestLimitMs),
                        !.feed_time = IF IsNone(@) THEN @
                                      ELSE Some(Earlier(Val(@), d, FeedbackDelayMs)) ]
               ELSE quiz
    /\ pc' = IF running THEN "events" ELSE "done"
    /\ UNCHANGED << files, now, running, error, scene, ctx, input >>

\* A frame takes time: clock.tick(FPS) waits for the rest of the frame.
TimePasses == \E d \in 1..MaxStep : Tick(d)

Update == SplashUpdate \/ QuizUpdate \/ NoUpdate

NextLive ==
    \/ \E e \in SceneEvents : BaseEvent(e)
    \/ \E e \in SceneEvents : MenuEvent(e)
    \/ \E e \in SceneEvents : CategoryEvent(e)
    \/ \E e \in SceneEvents : InputEvent(e)
    \/ \E e \in SceneEvents : QuizEvent(e)
    \/ Update
    \/ \E d \in 0..MaxStep : Tick(d)

\* The run in which the window is never closed (no QUIT event).  Game.run
\* calls update and draw in every frame, after the events of the frame;
\* frames take time, so the clock goes on again and again.
SpecLive ==
    /\ Init
    /\ [][NextLive]_vars
    /\ WF_vars(Update)
    /\ SF_vars(TimePasses)

\* ------------------------------------------------------------ reading the state
\* The phase of a quiz session, from the flags of QuizScene.
Phase(q) ==
    IF q.finished THEN "Finished"
    ELSE IF q.feedback THEN "Feedback"
    ELSE "Answering"

\* A quiz session is the active scene.
InQuiz == scene = SCENE_QUIZ

\* The current question of the session, while there is one.
HasCurrent(q) == q.idx < Len(q.qs)
Current(q) == q.qs[q.idx + 1]
ValidIndices(qn) == 0..(Len(qn.options) - 1)

\* A step of Game.run that calls the active scene's update().
UpdateStep == pc = "events" /\ pc' = "draw"
\* A step that stays in the same quiz session.
SameSession == InQuiz /\ scene' = SCENE_QUIZ

\* ------------------------------------------------------------ claims

\* C1 as stated: in every reachable state of a quiz session,
\* score <= currentIndex.
C1_ScoreAtMostIndex == InQuiz => quiz.score <= quiz.idx

\* C1 amended: score <= currentIndex while Answering or Finished, and
\* score <= currentIndex + 1 while in Feedback: a correct selection raises
\* score at once, before currentIndex advances.
C1_ScoreBound ==
    InQuiz =>
        quiz.score <= quiz.idx + (IF Phase(quiz) = "Feedback" THEN 1 ELSE 0)

\* A correct selection on the second question is in its feedback window.
C1_Witness ==
    /\ InQuiz
    /\ Phase(quiz) = "Feedback"
    /\ quiz.idx = 1
    /\ quiz.score = 2

\* C2: with an empty question set the Quiz scene never fails.
C2_EmptyQuizNeverFails == (InQuiz /\ quiz.qs = << >>) => error = "none"

\* A true Answering phase: the session has a current question and waits
\* for its answer (an empty question set is the degenerate display, C2).
Answering(q) == Phase(q) = "Answering" /\ HasCurrent(q)

\* A step of Game.run that hands an event to the active scene.
EventStep == pc = "events" /\ pc' = "events" /\ running' = running

\* The time limit of the current question has been reached at clock now.
LimitReached == (now - quiz.start) * TimeUnit >= quiz.limit * 1000

\* The feedback window has elapsed at clock now.
WindowElapsed == (now - Val(quiz.feed_time)) * TimeUnit > 1500

\* A selection event: a pointer-down on one of the option buttons.
IsSelection(e) ==
    e.type = "MOUSEBUTTONDOWN" /\ e.zone = "body" /\ e.n < Len(quiz.opts)

\* Every step A can take establishes P, and A can take one.
Leads(A, P) == ENABLED A /\ ~ENABLED (A /\ ~P)

\* Every step A can take establishes P.
Keeps(A, P) == ~ENABLED (A /\ ~P)

\* C3, over the events: in Answering every selection event moves the
\* session to Feedback, and no other event takes it out of Answering.
C3_Events ==
    (InQuiz /\ Answering(quiz) /\ pc = "events") =>
        \A e \in SceneEvents :
            IF IsSelection(e)
            THEN Leads(QuizEvent(e), scene' = SCENE_QUIZ /\ Phase(quiz') = "Feedback")
            ELSE Keeps(QuizEvent(e), scene' = SCENE_QUIZ => Phase(quiz') = "Answering")

\* C3, over the steps: an update moves Answering to Feedback exactly when
\* the elapsed time has reached the limit, and a step that takes the
\* session out of Answering is such an update or an event that recorded
\* the index of an option button.
C3_Steps ==
    (InQuiz /\ Answering(quiz)) =>
        /\ UpdateStep =>
              /\ scene' = SCENE_QUIZ
              /\ Phase(quiz') = IF LimitReached THEN "Feedback" ELSE "Answering"
        /\ (SameSession /\ Phase(quiz') # "Answering") =>
              /\ Phase(quiz') = "Feedback"
              /\ \/ UpdateStep /\ LimitReached
                 \/ /\ EventStep
                    /\ \E i \in 1..Len(quiz.opts) : quiz'.sel = Some(quiz.opts[i].idx)

\* C3: a session in Answering moves to Feedback in a step if and only if
\* the step is a selection event or an update at which the elapsed time
\* since questionStartTime is >= timeLimitSeconds.
C3_AnsweringToFeedback == [] C3_Events /\ [][C3_Steps]_vars

\* The time limit expired exactly at timeLimitSeconds and was submitted.
C3_Witness ==
    /\ InQuiz
    /\ Phase(quiz) = "Feedback"
    /\ quiz.sel = Some(TimeoutSel)
    /\ (Val(quiz.feed_time) - quiz.start) * TimeUnit = quiz.limit * 1000

\* C4: the update in which the time limit expires records a selection that
\* is no valid option index of the current question and differs from its
\* correctIndex, and leaves score unchanged.
C4_TimeoutNeverCorrect ==
    [][ (InQuiz /\ Answering(quiz) /\ UpdateStep /\ LimitReached) =>
          /\ scene' = SCENE_QUIZ
          /\ Phase(quiz') = "Feedback"
          /\ ~IsNone(quiz'.sel)
          /\ Val(quiz'.sel) # Current(quiz).answerIndex
          /\ Val(quiz'.sel) \notin ValidIndices(Current(quiz))
          /\ quiz'.score = quiz.score
          /\ quiz'.idx = quiz.idx ]_vars

\* The second question timed out after a correct first answer: the score
\* is still that of the first answer.
C4_Witness ==
    /\ InQuiz
    /\ Phase(quiz) = "Feedback"
    /\ quiz.sel = Some(TimeoutSel)
    /\ quiz.idx = 1
    /\ quiz.score = 1

\* C5: the step from Answering to Feedback that submits index i raises
\* score by exactly 1 if i is the correctIndex of the current question and
\* leaves it unchanged otherwise, leaves currentIndex unchanged and
\* records feedbackStartTime as the clock of that step.
C5_SubmitScores ==
    [][ (InQuiz /\ Answering(quiz) /\ SameSession /\ Phase(quiz') = "Feedback") =>
          /\ ~IsNone(quiz'.sel)
          /\ quiz'.score = quiz.score
                 + (IF Val(quiz'.sel) = Current(quiz).answerIndex THEN 1 ELSE 0)
          /\ quiz'.idx = quiz.idx
          /\ quiz'.feed_time = Some(now) ]_vars

\* After a correct first answer, a wrong option was submitted.
C5_Witness ==
    /\ InQuiz
    /\ Phase(quiz) = "Feedback"
    /\ quiz.idx = 1
    /\ quiz.score = 1
    /\ Val(quiz.sel) \in ValidIndices(Current(quiz))
    /\ Val(quiz.sel) # Current(quiz).answerIndex

\* C6: currentIndex changes only in an update made in Feedback after
\* feedbackStartTime + 1500 ms, by exactly 1; the phase then is Finished
\* iff the new currentIndex equals len(questions), and otherwise Answering
\* with the selection cleared and questionStartTime set to that clock.
\* Such an update in Feedback does advance.
C6_Advance ==
    [][ /\ (SameSession /\ quiz'.idx # quiz.idx) =>
              /\ Phase(quiz) = "Feedback"
              /\ UpdateStep
              /\ WindowElapsed
              /\ Val(quiz.feed_time) < now
              /\ quiz'.idx = quiz.idx + 1
              /\ Phase(quiz') = "Finished" <=> quiz'.idx = Len(quiz.qs)
              /\ Phase(quiz') # "Finished" =>
                    /\ Phase(quiz') = "Answering"
                    /\ quiz'.sel = None
                    /\ quiz'.start = now
        /\ (InQuiz /\ Phase(quiz) = "Feedback" /\ UpdateStep /\ WindowElapsed) =>
              /\ scene' = SCENE_QUIZ
              /\ quiz'.idx = quiz.idx + 1 ]_vars

\* The session has just advanced to its second question.
C6_Witness ==
    /\ InQuiz
    /\ pc = "draw"
    /\ Phase(quiz) = "Answering"
    /\ quiz.idx = 1
    /\ quiz.start = now
    /\ IsNone(quiz.sel)
    /\ now > 0

\* C7: an event handled in Feedback or Finished, a selection event in
\* particular, leaves score, currentIndex, the recorded selection and
\* feedbackStartTime of the session unchanged.
C7_SelectionIgnored ==
    [][ (InQuiz /\ Phase(quiz) \in { "Feedback", "Finished" }
              /\ EventStep /\ SameSession) =>
          /\ quiz'.score = quiz.score
          /\ quiz'.idx = quiz.idx
          /\ quiz'.sel = quiz.sel
          /\ quiz'.feed_time = quiz.feed_time ]_vars

\* Events are being handled in a feedback window that has been open for a
\* while, with option buttons to click.
C7_Witness ==
    /\ InQuiz
    /\ pc = "events"
    /\ Phase(quiz) = "Feedback"
    /\ Len(quiz.opts) > 0
    /\ Val(quiz.sel) \in ValidIndices(Current(quiz))
    /\ now > Val(quiz.feed_time)

\* C8 as stated: in a session that reached Finished the final score cue
\* has fired exactly once.
C8_CueExactlyOnce == (InQuiz /\ quiz.finished) => quiz.score_plays = 1

\* C8 amended: when the score sound was found at construction, the cue has
\* fired exactly once in every Finished state and never before Finished;
\* when the sound is missing the cue never fires.
C8_CueOnceIfLoaded ==
    InQuiz =>
        quiz.score_plays = (IF quiz.finished /\ quiz.score_sfx THEN 1 ELSE 0)

\* Updates have run in Finished after the cue was played.
C8_Witness ==
    /\ InQuiz
    /\ quiz.finished
    /\ quiz.score_plays = 1
    /\ (now - Val(quiz.feed_time)) * TimeUnit > 2 * 1500

\* C9, over the events: in Finished every pointer-down makes Menu the
\* active scene and every other event changes nothing.
C9_Events ==
    (InQuiz /\ quiz.finished /\ pc = "events") =>
        \A e \in SceneEvents :
            IF e.type = "MOUSEBUTTONDOWN"
            THEN Leads(QuizEvent(e), scene' = SCENE_MENU /\ UNCHANGED ctx)
            ELSE Leads(QuizEvent(e), UNCHANGED << scene, quiz, ctx >>)

\* C9, over the steps: a step taken in Finished leaves the session context
\* unchanged and either keeps the session as it is or is an event that
\* makes Menu the active scene.
C9_Steps ==
    (InQuiz /\ quiz.finished) =>
        /\ UNCHANGED ctx
        /\ \/ UNCHANGED << scene, quiz >>
           \/ EventStep /\ scene' = SCENE_MENU

\* C9: in Finished a pointer-down at any position makes Menu the active
\* scene; every other event and every update leaves the active scene,
\* score, currentIndex, phase and the session context unchanged.
C9_Finished == [] C9_Events /\ [][C9_Steps]_vars

\* Events are being handled in a Finished session.
C9_Witness ==
    /\ InQuiz
    /\ quiz.finished
    /\ pc = "events"
    /\ quiz.idx = Len(quiz.qs)
    /\ quiz.idx > 0

\* C10: in every reachable state of a quiz session,
\* 0 <= currentIndex <= len(questions) <= 10.
C10_IndexInRange ==
    InQuiz =>
        /\ 0 <= quiz.idx
        /\ quiz.idx <= Len(quiz.qs)
        /\ Len(quiz.qs) <= 10

\* A session truncated to ten questions has advanced.
C10_Witness ==
    /\ InQuiz
    /\ Len(quiz.qs) = 10
    /\ quiz.idx > 0

\* C11 as stated: in every reachable state of a quiz session, also of one
\* whose question set is empty, the phase is Finished if and only if
\* currentIndex equals the number of questions.
C11_FinishedIffAtEnd ==
    InQuiz => (Phase(quiz) = "Finished" <=> quiz.idx = Len(quiz.qs))

\* C11 amended: in a session with at least one question the phase is
\* Finished if and only if currentIndex equals the number of questions;
\* a session with an empty question set is never Finished, although its
\* currentIndex 0 equals the number of questions from the start.
C11_FinishedIffAtEndOfQuestions ==
    InQuiz =>
        IF quiz.qs = << >>
        THEN Phase(quiz) # "Finished" /\ quiz.idx = 0
        ELSE Phase(quiz) = "Finished" <=> quiz.idx = Len(quiz.qs)

\* A session of two questions has ended.
C11_Witness ==
    /\ InQuiz
    /\ Len(quiz.qs) = 2
    /\ quiz.idx = 2
    /\ Phase(quiz) = "Finished"

\* A step that makes the named scene active, coming from another scene.
Enters(name) == scene # name /\ scene' = name

\* The state QuizScene.__init__ leaves behind.
FreshQuiz(q, t) ==
    /\ Phase(q) = "Answering"
    /\ q.idx = 0
    /\ q.score = 0
    /\ IsNone(q.sel)
    /\ q.start = t
    /\ q.score_plays = 0

\* C12: every change of scene to Quiz or Input installs a newly constructed
\* scene, so that every entry into Quiz starts in Answering with
\* currentIndex 0, score 0, no selection and the question clock at the
\* time of entry, whatever earlier sessions did; the Splash instance is
\* never replaced, and entering Menu keeps the Menu instance with the
\* hit-regions it had.  (Category, Credits and Settings carry no state
\* of their own.)
C12_FreshOrCached ==
    [][ /\ Enters(SCENE_QUIZ) => FreshQuiz(quiz', now')
        /\ Enters(SCENE_INPUT) =>
                input' = [ diff |-> selected_difficulty', text |-> << >> ]
        /\ Enters(SCENE_MENU) => menu' = menu
        /\ splash' = splash ]_vars

\* A session has just been entered, later than the first session can
\* have been entered and left, with the Menu instance already drawn.
C12_Witness ==
    /\ InQuiz
    /\ pc = "events"
    /\ FreshQuiz(quiz, now)
    /\ quiz.qs # << >>
    /\ now >= 2
    /\ ~IsNone(menu.icon_rects)

\* The active scene handles event e.
Handle(e) ==
    \/ BaseEvent(e)
    \/ MenuEvent(e)
    \/ CategoryEvent(e)
    \/ InputEvent(e)
    \/ QuizEvent(e)

\* A pointer-down on the bottom-bar button with the given label.
BarClick(label) ==
    MouseDown("bottom", (CHOOSE i \in DOMAIN BOTTOM_BUTTONS : BOTTOM_BUTTONS[i] = label) - 1)

\* C13: in every scene and every state of it, also in every quiz phase,
\* a pointer-down on the bottom bar's Cancel makes Menu the active scene,
\* on Credits makes Credits active, on Settings makes Settings active,
\* and on General Knowledge leaves the active scene and the session
\* context unchanged.
C13_BottomBarEverywhere ==
    Dispatching =>
        /\ Leads(Handle(BarClick("Cancel")), scene' = SCENE_MENU)
        /\ Leads(Handle(BarClick("Credits")), scene' = SCENE_CREDITS)
        /\ Leads(Handle(BarClick("Settings")), scene' = SCENE_SETTINGS)
        /\ Leads(Handle(BarClick("General Knowledge")),
                 scene' = scene /\ ctx' = ctx)

\* The question bank of the selected category, as found on disk.
Bank ==
    IF DataFile(KeyStr(selected_key)) \in files
    THEN JsonLoad(DataFile(KeyStr(selected_key)))
    ELSE << >>

\* The number of records of the bank that have difficulty d.
Matching(d) == Cardinality({ i \in DOMAIN Bank : Some(Bank[i].difficulty) = d })

\* C14: a session entered with difficulty d, on a bank holding m records
\* of difficulty d, contains exactly min(m, 10) questions, each of
\* difficulty d, each a record of the bank, none of them twice; its time
\* limit is 20 s for Easy, 15 s for Medium, 10 s for Hard, and 10 s for
\* any other value.
C14_SessionQuestions ==
    /\ InQuiz =>
          LET m == Matching(selected_difficulty)
              n == Len(quiz.qs)
              drawn == { quiz.qs[i] : i \in 1..n }
          IN  /\ n = (IF m < MaxQuestions THEN m ELSE MaxQuestions)
              /\ \A q \in drawn : Some(q.difficulty) = selected_difficulty
              /\ drawn \subseteq { Bank[j] : j \in DOMAIN Bank }
              /\ Cardinality(drawn) = n
              /\ selected_difficulty = Some("Easy") => quiz.limit = 20
              /\ selected_difficulty = Some("Medium") => quiz.limit = 15
              /\ selected_difficulty = Some("Hard") => quiz.limit = 10
    /\ TIME_LIMITS(None) = 10
    /\ TIME_LIMITS(Some("Expert")) = 10

\* A Medium session on a bank with more than ten Medium records has just
\* been entered: it holds ten questions and a limit of 15 s.
C14_Witness ==
    /\ InQuiz
    /\ selected_difficulty = Some("Medium")
    /\ Matching(selected_difficulty) > MaxQuestions
    /\ Len(quiz.qs) = MaxQuestions
    /\ quiz.limit = 15
    /\ quiz.start = now
    /\ quiz.idx = 0

\* C15: while Splash is the active scene and frames keep coming, Menu
\* becomes the active scene without any input once 3000 ms have passed
\* since Splash was entered: an update of Splash makes Menu active when
\* more than 3000 ms have passed and leaves Splash active otherwise, and
\* Splash does not stay the active scene for ever.
C15_SplashToMenu ==
    /\ [][ (UpdateStep /\ scene = SCENE_SPLASH) =>
              IF Ms(now - splash.start) > 3000
              THEN scene' = SCENE_MENU
              ELSE scene' = SCENE_SPLASH ]_vars
    /\ (scene = SCENE_SPLASH) ~> (scene # SCENE_SPLASH)

\* The update of Splash has just made Menu active: no event was handled,
\* Menu has not been drawn yet and the session context is untouched.
C15_Witness ==
    /\ scene = SCENE_MENU
    /\ pc = "draw"
    /\ Ms(now - splash.start) > 3000
    /\ IsNone(menu.icon_rects)
    /\ running

\* C16: the absence of an asset is never fatal: for every set of missing
\* assets, start-up and every construction of a scene complete.
C16_MissingAssetNotFatal == error # "FileNotFoundError"

\* C17: every quiz session with at least one question that stays the
\* active scene is Finished in the end, whatever the player does or does
\* not do, as long as frames keep coming and time goes on; a Finished
\* session has currentIndex equal to the number of its questions.
C17_SessionFinishes ==
    /\ (InQuiz /\ quiz.qs # << >>) ~> (~InQuiz \/ Phase(quiz) = "Finished")
    /\ []((InQuiz /\ Phase(quiz) = "Finished") => quiz.idx = Len(quiz.qs))

\* A session of ten questions is Finished, its last question submitted
\* by the timeout, with no point scored.
C17_Witness ==
    /\ InQuiz
    /\ Phase(quiz) = "Finished"
    /\ Len(quiz.qs) = MaxQuestions
    /\ quiz.idx = MaxQuestions
    /\ quiz.sel = Some(TimeoutSel)
    /\ quiz.score = 0

\* The option indices the option buttons of the session submit.
Submittable(q) == { q.opts[i].idx : i \in DOMAIN q.opts }

\* C18: while a question is the current one in Answering, the option
\* indices the player can submit are exactly 0 .. len(options) - 1 of that
\* question, also when the questions of the session have different
\* numbers of options.
C18_SubmittableIsValid ==
    (InQuiz /\ HasCurrent(quiz) /\ Phase(quiz) = "Answering") =>
        Submittable(quiz) = ValidIndices(Current(quiz))

\* C19: no pointer-down reaches the Menu scene before a draw of Menu has
\* computed its icon hit-regions: for every order of the events of a
\* frame, handling an event never fails.
C19_NoClickBeforeMenuDrawn == error # "AttributeError"

\* C20: whenever Quiz is the active scene the session context is fully
\* populated: category key, category label and player name are set and
\* the difficulty is Easy, Medium or Hard; Category is never active
\* without a category key, nor Input without a difficulty; and Quiz is
\* entered only from Input, Input only from Category, Category only from
\* Menu.
C20_ContextPopulated ==
    /\ [](InQuiz =>
            /\ ~IsNone(selected_key)
            /\ ~IsNone(selected_school)
            /\ ~IsNone(player_name)
            /\ selected_difficulty \in { Some("Easy"), Some("Medium"), Some("Hard") })
    /\ [](scene = SCENE_CATEGORY => ~IsNone(selected_key))
    /\ [](scene = SCENE_INPUT =>
            ~IsNone(selected_difficulty) /\ input.diff = selected_difficulty)
    /\ [][ /\ Enters(SCENE_QUIZ) => scene = SCENE_INPUT
           /\ Enters(SCENE_INPUT) => scene = SCENE_CATEGORY
           /\ Enters(SCENE_CATEGORY) => scene = SCENE_MENU ]_vars

\* A Hard biology session has been entered with a typed player name.
C20_Witness ==
    /\ InQuiz
    /\ selected_key = Some("biology")
    /\ selected_school = Some("Biology")
    /\ selected_difficulty = Some("Hard")
    /\ player_name = Some(<< "a" >>)
    /\ quiz.start = now

=============================================================================
